---- MODULE Spec2Model ----
(***************************************************************************)
(* A model of the guestbook application in src/main.py: the message table  *)
(* created by fast_app, the clock and the timestamp format, the read ->    *)
(* sort -> render pipeline, and the three request handlers (GET /,         *)
(* POST /submit-message, GET /update-messages).  Synchronous handlers run  *)
(* on worker threads, so a POST is three steps that other requests may     *)
(* interleave with: the timestamp is formatted (an argument of insert),    *)
(* the row is inserted, and the table is read again and rendered.          *)
(***************************************************************************)
EXTENDS Integers, Sequences, FiniteSets, TLC

\* ------------------------------------------------------------- bounds
\* Seconds the clock may advance past the first instant of the model.
MaxClock == 2
\* Rows the table may hold.
MaxMessages == 2
\* POST requests handled concurrently (worker threads).
NumWorkers == 2

\* ---------------------------------------------------------- constants
MAX_NAME_CHAR == 15
MAX_MESSAGE_CHAR == 50

\* The first instant of the model, 2024-11-03 08:59:58 UTC, as seconds of
\* that UTC day: two seconds before US/Pacific leaves daylight time.
EpochSecondOfDay == 8 * 60 * 60 + 59 * 60 + 58
\* 09:00:00 UTC, the instant US/Pacific goes from UTC-7 to UTC-8.
FallBackSecondOfDay == 9 * 60 * 60
SecondsPerHour == 60 * 60
SecondsPerDay == 24 * 60 * 60

\* The form inputs a client may send: empty, ordinary, and one character
\* over each of the limits the form's inputs carry.
LongName == "0123456789abcdef"
LongMessage == "012345678901234567890123456789012345678901234567890"
Submissions == {<<"", "">>, <<"Ann", "hi">>, <<LongName, LongMessage>>}

VARIABLES
    now,        \* the clock when it was last read: seconds since the first
                \* instant
    store,      \* the rows of the messages table, in rowid order
    stamps,     \* stamps[i]: the rank, among all the timestamps taken, of
                \* the timestamp of the table's i-th row
    inflight,   \* the POST requests that workers are in the middle of
    lastResp,   \* the response most recently sent, while the table is as
                \* the response's handler read it
    dom,        \* the refresh instruction of the client's update-area
    nOk,        \* POST requests answered successfully so far
    repeated    \* lastResp answers a GET /update-messages that came right
                \* after another one

vars == <<now, store, stamps, inflight, lastResp, dom, nOk, repeated>>

\* ------------------------------------------------------------ the clock

\* datetime.now(pytz.timezone("US/Pacific")): the civil time of the zone.
get_pst_time(clock) ==
    LET utc    == EpochSecondOfDay + clock
        offset == IF utc < FallBackSecondOfDay THEN 7 * SecondsPerHour
                                               ELSE 8 * SecondsPerHour
        local  == utc - offset
        sod    == local % SecondsPerDay
    IN  [year   |-> 2024,
         month  |-> 11,
         day    |-> 3 + (local \div SecondsPerDay),
         hour   |-> sod \div SecondsPerHour,
         minute |-> (sod % SecondsPerHour) \div 60,
         second |-> sod % 60]

\* dt.strftime("%Y-%m-%d %I:%M:%S %p PST"): the fields of the string.
strftime(dt) ==
    [Y |-> dt.year, m |-> dt.month, d |-> dt.day,
     I |-> IF dt.hour % 12 = 0 THEN 12 ELSE dt.hour % 12,
     M |-> dt.minute, S |-> dt.second,
     p |-> IF dt.hour < 12 THEN "AM" ELSE "PM",
     zone |-> "PST"]

ValueError == [error |-> "ValueError"]

\* datetime.strptime(ts, "%Y-%m-%d %I:%M:%S %p PST"): a naive datetime, or
\* ValueError when the string does not match the format.
strptime(ts) ==
    IF /\ ts.Y \in 1..9999 /\ ts.m \in 1..12 /\ ts.d \in 1..31
       /\ ts.I \in 1..12 /\ ts.M \in 0..59 /\ ts.S \in 0..61
       /\ ts.p \in {"AM", "PM"} /\ ts.zone = "PST"
    THEN [year |-> ts.Y, month |-> ts.m, day |-> ts.d,
          hour |-> (ts.I % 12) + (IF ts.p = "PM" THEN 12 ELSE 0),
          minute |-> ts.M, second |-> ts.S]
    ELSE ValueError

\* a < b for naive datetimes.
DatetimeLess(a, b) ==
    LET ka == <<a.year, a.month, a.day, a.hour, a.minute, a.second>>
        kb == <<b.year, b.month, b.day, b.hour, b.minute, b.second>>
    IN  \E i \in 1..6 : /\ ka[i] < kb[i]
                        /\ \A j \in 1..(i - 1) : ka[j] = kb[j]

\* ------------------------------------------------------------ the table

\* The id SQLite gives a row inserted without one into a table whose
\* primary key is the integer column id: one more than the largest.
NextId(rows) ==
    IF Len(rows) = 0 THEN 1
    ELSE 1 + CHOOSE k \in {rows[i].id : i \in 1..Len(rows)} :
                 \A i \in 1..Len(rows) : rows[i].id <= k

\* messages_table.insert(name=..., message=..., timestamp=...)
insert(rows, name, message, timestamp) ==
    Append(rows, [id |-> NextId(rows), name |-> name, message |-> message,
                  timestamp |-> timestamp])

\* The key of the sort: lambda x: datetime.strptime(x["timestamp"], FMT)
SortKey(x) == strptime(x.timestamp)

\* x goes after the rows with a greater key and before those with an equal
\* or smaller one.
RECURSIVE InsertDesc(_, _)
InsertDesc(x, sorted) ==
    IF Len(sorted) = 0 THEN <<x>>
    ELSE IF DatetimeLess(SortKey(x), SortKey(Head(sorted)))
         THEN <<Head(sorted)>> \o InsertDesc(x, Tail(sorted))
         ELSE <<x>> \o sorted

\* sorted(messages, key=..., reverse=True).  The sort is stable, also when
\* reversed: rows with equal keys stay in the order they were given in.
RECURSIVE SortedDesc(_)
SortedDesc(rows) ==
    IF Len(rows) = 0 THEN <<>>
    ELSE InsertDesc(Head(rows), SortedDesc(Tail(rows)))

\* What a call ends in: the exception it raises, or the value it returns.
Raised == [raised |-> TRUE, value |-> <<>>]
Returned(v) == [raised |-> FALSE, value |-> v]

\* get_all_messages that drops the rows whose timestamp does not parse.
get_all_messages_Skipping(messages_table) ==
    LET ok == {i \in 1..Len(messages_table) :
                  strptime(messages_table[i].timestamp) # ValueError}
        F[i \in 0..Len(messages_table)] ==
            IF i = 0 THEN <<>>
            ELSE IF i \in ok THEN Append(F[i - 1], messages_table[i])
                 ELSE F[i - 1]
    IN  Returned(SortedDesc(F[Len(messages_table)]))

\* get_all_messages on a table that hands its rows out in one order on one
\* read and in the opposite order on the next.
get_all_messages_Unstable(messages_table) ==
    IF \E i \in 1..Len(messages_table) :
           strptime(messages_table[i].timestamp) = ValueError
    THEN Raised
    ELSE IF lastResp.kind = "update"
         THEN Returned(SortedDesc([i \in 1..Len(messages_table) |->
                  messages_table[Len(messages_table) + 1 - i]]))
         ELSE Returned(SortedDesc(messages_table))

get_all_messages(messages_table) ==
    IF \E i \in 1..Len(messages_table) :
           strptime(messages_table[i].timestamp) = ValueError
    THEN Raised
    ELSE Returned(SortedDesc(messages_table))

\* ------------------------------------------------------------ rendering

\* create_message_list without the branch for the empty list.
create_message_list_NoPlaceholder(messages) ==
    [id |-> "message-list", cls |-> "message-list",
     children |-> [i \in 1..Len(messages) |->
         [tag |-> "div", cls |-> "message",
          name |-> messages[i].name \o ": ",
          text |-> messages[i].message,
          timestamp |-> messages[i].timestamp]]]

create_message_list(messages) ==
    IF Len(messages) = 0
    THEN [id |-> "message-list", cls |-> "empty-state",
          children |-> <<[tag |-> "p",
                          text |-> "No messages yet. Be the first to say hi!"]>>]
    ELSE [id |-> "message-list", cls |-> "message-list",
          children |-> [i \in 1..Len(messages) |->
              [tag |-> "div", cls |-> "message",
               name |-> messages[i].name \o ": ",
               text |-> messages[i].message,
               timestamp |-> messages[i].timestamp]]]

create_guest_counter(count) ==
    [id |-> "guest-counter", cls |-> "guest-counter", count |-> count,
     text |-> " guests have said hi so far ", emoji |-> "wave"]

\* The Div of POST /submit-message with the counter of the rows there were
\* before the insert.
post_fragment_StaleCount(all_messages) ==
    [id |-> "update-area", hx_get |-> "/update-messages",
     hx_trigger |-> "every 10s",
     guest_counter |-> create_guest_counter(Len(all_messages) - 1),
     message_list |-> create_message_list(all_messages)]

\* The Div of POST /submit-message without the refresh instruction.
post_fragment_NoTrigger(all_messages) ==
    [id |-> "update-area", hx_get |-> "", hx_trigger |-> "",
     guest_counter |-> create_guest_counter(Len(all_messages)),
     message_list |-> create_message_list(all_messages)]

\* The Div the handler of POST /submit-message returns.
post_fragment(all_messages) ==
    [id |-> "update-area", hx_get |-> "/update-messages",
     hx_trigger |-> "every 10s",
     guest_counter |-> create_guest_counter(Len(all_messages)),
     message_list |-> create_message_list(all_messages)]

\* The Div the handler of GET /update-messages returns.
get_update_messages_fragment(all_messages) ==
    [id |-> "update-area", hx_get |-> "/update-messages",
     hx_trigger |-> "every 10s",
     guest_counter |-> create_guest_counter(Len(all_messages)),
     message_list |-> create_message_list(all_messages)]

\* The page the handler of GET / returns.
get_page(all_messages) ==
    [title |-> "Simple Guestbook",
     form |-> [id |-> "message-form", hx_post |-> "/submit-message",
               hx_target |-> "#update-area", hx_swap |-> "innerHTML",
               name_maxlength |-> MAX_NAME_CHAR,
               message_maxlength |-> MAX_MESSAGE_CHAR],
     update_area |->
        [id |-> "update-area", hx_get |-> "/update-messages",
         hx_trigger |-> "every 10s",
         guest_counter |-> create_guest_counter(Len(all_messages)),
         message_list |-> create_message_list(all_messages)]]

\* The update-area container of a response body.
UpdateArea(kind, body) == IF kind = "get" THEN body.update_area ELSE body

\* ------------------------------------------------------------ responses

NoBody == [id |-> "none"]
NoInstruction == [hx_get |-> "", hx_trigger |-> ""]

\* A POST as its response remembers it: the form fields it carried and the
\* id of the row it inserted (0: none).
Request(id, name, message) == [id |-> id, name |-> name, message |-> message]
NoRequest == Request(0, "", "")

\* A response: the handler it comes from, its status, its body and the
\* request it answers.
Response(kind, status, body, req) ==
    [kind |-> kind, status |-> status, body |-> body, req |-> req]
NoResponse == Response("none", 0, NoBody, NoRequest)

\* What the client's update-area asks for once a response has arrived: the
\* attributes of the container of a successful response; an error response
\* is not swapped in.
Swap(resp) ==
    IF resp.status = 200
    THEN LET area == UpdateArea(resp.kind, resp.body)
         IN  [hx_get |-> area.hx_get, hx_trigger |-> area.hx_trigger]
    ELSE dom

\* What each handler answers once it has called get_all_messages: its body
\* around what the call returned, or the error response that the exception
\* the call raised becomes.
get_response(all_messages) ==
    IF all_messages.raised THEN Response("get", 500, NoBody, NoRequest)
    ELSE Response("get", 200, get_page(all_messages.value), NoRequest)

get_update_messages_response(all_messages) ==
    IF all_messages.raised THEN Response("update", 500, NoBody, NoRequest)
    ELSE Response("update", 200,
                  get_update_messages_fragment(all_messages.value), NoRequest)

post_response(all_messages, req) ==
    IF all_messages.raised THEN Response("post", 500, NoBody, req)
    ELSE Response("post", 200, post_fragment(all_messages.value), req)

\* Timestamps taken so far: one per row and one per request about to insert.
StampCount == Len(store) + Cardinality({r \in inflight : r.pc = "insert"})

\* -------------------------------------------------------------- actions

Init ==
    /\ now = 0
    /\ store = <<>>
    /\ stamps = <<>>
    /\ inflight = {}
    /\ lastResp = NoResponse
    /\ dom = NoInstruction
    /\ nOk = 0
    /\ repeated = FALSE

\* GET /
get ==
    /\ \E all_messages \in {get_all_messages(store)} :
          lastResp' = get_response(all_messages)
    /\ dom' = Swap(lastResp')
    /\ repeated' = FALSE
    /\ UNCHANGED <<now, store, stamps, inflight, nOk>>

\* GET /update-messages that also prunes the table down to its latest row.
get_update_messages_Pruning ==
    /\ \E all_messages \in {get_all_messages(store)} :
          lastResp' = get_update_messages_response(all_messages)
    /\ dom' = Swap(lastResp')
    /\ repeated' = (lastResp.kind = "update")
    /\ store' = IF Len(store) > 1 THEN <<store[Len(store)]>> ELSE store
    /\ stamps' = IF Len(store) > 1 THEN <<stamps[Len(stamps)]>> ELSE stamps
    /\ UNCHANGED <<now, inflight, nOk>>

\* GET /update-messages
get_update_messages ==
    /\ \E all_messages \in {get_all_messages(store)} :
          lastResp' = get_update_messages_response(all_messages)
    /\ dom' = Swap(lastResp')
    /\ repeated' = (lastResp.kind = "update")
    /\ UNCHANGED <<now, store, stamps, inflight, nOk>>

\* POST /submit-message without one of its form fields: the parameters of
\* post cannot be bound and the request is answered before post runs.
post_missing_field ==
    /\ lastResp' = Response("post", 400, NoBody, NoRequest)
    /\ dom' = dom
    /\ repeated' = FALSE
    /\ UNCHANGED <<now, store, stamps, inflight, nOk>>

\* post -> add_message: the arguments of insert are evaluated, the
\* timestamp among them.  The clock is read `elapsed` seconds after it was
\* last read.
add_message_timestamp(name, message, elapsed) ==
    /\ Cardinality(inflight) < NumWorkers
    /\ StampCount < MaxMessages
    /\ now + elapsed <= MaxClock
    /\ now' = now + elapsed
    /\ inflight' = inflight \cup
           {[pc |-> "insert", name |-> name, message |-> message,
             timestamp |-> strftime(get_pst_time(now + elapsed)),
             rank |-> StampCount + 1, id |-> 0]}
    /\ UNCHANGED <<store, stamps, lastResp, dom, nOk, repeated>>

\* add_message that passes insert an id of its own, worked out when the
\* timestamp was taken.
add_message_insert_ExplicitId(r) ==
    /\ r.pc = "insert"
    /\ store' = Append(store, [id |-> r.rank, name |-> r.name,
                               message |-> r.message,
                               timestamp |-> r.timestamp])
    /\ stamps' = Append(stamps, r.rank)
    /\ inflight' = (inflight \ {r}) \cup
           {[r EXCEPT !.pc = "read", !.id = r.rank]}
    /\ lastResp' = NoResponse
    /\ repeated' = FALSE
    /\ UNCHANGED <<now, dom, nOk>>

\* add_message that enforces the limits of the form: it inserts only a name
\* and a message that are neither empty nor too long.
add_message_insert_Validating(r) ==
    /\ r.pc = "insert"
    /\ IF \/ Len(r.name) = 0 \/ Len(r.name) > MAX_NAME_CHAR
          \/ Len(r.message) = 0 \/ Len(r.message) > MAX_MESSAGE_CHAR
       THEN UNCHANGED <<store, stamps>>
       ELSE /\ store' = insert(store, r.name, r.message, r.timestamp)
            /\ stamps' = Append(stamps, r.rank)
    /\ inflight' = (inflight \ {r}) \cup
           {[r EXCEPT !.pc = "read", !.id = NextId(store)]}
    /\ lastResp' = NoResponse
    /\ repeated' = FALSE
    /\ UNCHANGED <<now, dom, nOk>>

\* post -> add_message: messages_table.insert
add_message_insert(r) ==
    /\ r.pc = "insert"
    /\ store' = insert(store, r.name, r.message, r.timestamp)
    /\ stamps' = Append(stamps, r.rank)
    /\ inflight' = (inflight \ {r}) \cup
           {[r EXCEPT !.pc = "read", !.id = NextId(store)]}
    /\ lastResp' = NoResponse
    /\ repeated' = FALSE
    /\ UNCHANGED <<now, dom, nOk>>

\* post: the table is read again, rendered and returned.
post_read(r) ==
    /\ r.pc = "read"
    /\ \E all_messages \in {get_all_messages(store)} :
          lastResp' = post_response(all_messages,
                                    Request(r.id, r.name, r.message))
    /\ dom' = Swap(lastResp')
    /\ nOk' = IF lastResp'.status = 200 THEN nOk + 1 ELSE nOk
    /\ repeated' = FALSE
    /\ inflight' = inflight \ {r}
    /\ UNCHANGED <<now, store, stamps>>

\* POST /submit-message
post ==
    \/ \E sub \in Submissions : \E elapsed \in 0..MaxClock :
           add_message_timestamp(sub[1], sub[2], elapsed)
    \/ \E r \in inflight : add_message_insert(r)
    \/ \E r \in inflight : post_read(r)

Next ==
    \/ get
    \/ get_update_messages
    \/ post_missing_field
    \/ post

Spec == Init /\ [][Next]_vars

\* A row that another program wrote into data/guestbook.db, with a
\* timestamp that names the zone as it was on that day:
\* "2024-07-01 09:15:00 AM PDT".
ForeignRow ==
    [id |-> 1, name |-> "Bob", message |-> "yo",
     timestamp |-> [Y |-> 2024, m |-> 7, d |-> 1, I |-> 9, M |-> 15, S |-> 0,
                    p |-> "AM", zone |-> "PDT"]]

\* The application starts on a database file that holds the foreign row.
InitCorrupt ==
    /\ now = 0
    /\ store = <<ForeignRow>>
    /\ stamps = <<0>>
    /\ inflight = {}
    /\ lastResp = NoResponse
    /\ dom = NoInstruction
    /\ nOk = 0
    /\ repeated = FALSE

SpecCorrupt == InitCorrupt /\ [][Next]_vars

\* The update-area the client shows tells it to poll.
Instructed == dom.hx_get = "/update-messages" /\ dom.hx_trigger = "every 10s"

\* ---------------------------------------------------------- properties

\* The index in the table of the row with this id.
PositionOf(id) == CHOOSE i \in 1..Len(store) : store[i].id = id
HasRow(id) == \E i \in 1..Len(store) : store[i].id = id
Unparsable == \E i \in 1..Len(store) : strptime(store[i].timestamp) = ValueError
\* The entry create_message_list renders for a row.
EntryOf(row) ==
    [tag |-> "div", cls |-> "message", name |-> row.name \o ": ",
     text |-> row.message, timestamp |-> row.timestamp]
\* The message entries of a rendered list.
NumEntries(list) == IF list.cls = "message-list" THEN Len(list.children) ELSE 0
Pending(pc) == {r \in inflight : r.pc = pc}

\* C1: the list get_all_messages returns is newest first: whenever the
\* timestamp of message A was taken by add_message before that of message B,
\* B comes before A in the list.
C1_NewestFirst ==
    LET all_messages == get_all_messages(store)
        n == Len(all_messages.value)
    IN  ~all_messages.raised =>
            \A i, j \in 1..n :
                stamps[PositionOf(all_messages.value[i].id)]
                    < stamps[PositionOf(all_messages.value[j].id)] => j < i

\* C2: the ids of the rows are pairwise distinct and strictly increasing in
\* the order in which the inserts took effect, and no insert is lost: every
\* request that has inserted has its row, and the table holds one row per
\* insert made.
C2_UniqueIncreasingIds ==
    /\ \A i, j \in 1..Len(store) : i < j => store[i].id < store[j].id
    /\ \A r \in Pending("read") : HasRow(r.id)
    /\ \A r, q \in Pending("read") : r # q => r.id # q.id
    /\ Len(store) = nOk + Cardinality(Pending("read"))
    /\ Len(stamps) = Len(store)

C2_Witness ==
    /\ Len(store) = 2
    /\ Cardinality(Pending("read")) = 2

\* C3: a POST with both fields is accepted whatever the strings are, empty
\* or over the limits of the form: the request has exactly one row in the
\* table, the row carries the submitted name and message unchanged, and the
\* response is a success whose list shows them.
C3_NoValidation ==
    /\ \A r \in Pending("read") :
          /\ Cardinality({i \in 1..Len(store) : store[i].id = r.id}) = 1
          /\ store[PositionOf(r.id)].name = r.name
          /\ store[PositionOf(r.id)].message = r.message
    /\ (lastResp.kind = "post" /\ lastResp.status # 400) =>
          /\ lastResp.status = 200
          /\ Cardinality({i \in 1..Len(store) : store[i].id = lastResp.req.id}) = 1
          /\ store[PositionOf(lastResp.req.id)].name = lastResp.req.name
          /\ store[PositionOf(lastResp.req.id)].message = lastResp.req.message
          /\ \E k \in 1..Len(lastResp.body.message_list.children) :
                lastResp.body.message_list.children[k]
                    = EntryOf(store[PositionOf(lastResp.req.id)])

C3_Witness ==
    /\ lastResp.kind = "post" /\ lastResp.status = 200
    /\ Len(lastResp.req.name) > MAX_NAME_CHAR
    /\ Len(lastResp.req.message) > MAX_MESSAGE_CHAR
    /\ \E i \in 1..Len(store) : store[i].name = "" /\ store[i].message = ""

\* C4: the fragment a POST returns is the fragment GET /update-messages
\* returns for the table as it is after the insert: its list holds the
\* message the request inserted and its counter counts it.
C4_PostReturnsRefreshFragment ==
    (lastResp.kind = "post" /\ lastResp.status = 200) =>
        /\ lastResp.body
              = get_update_messages_response(get_all_messages(store)).body
        /\ HasRow(lastResp.req.id)
        /\ \E k \in 1..Len(lastResp.body.message_list.children) :
              lastResp.body.message_list.children[k]
                  = EntryOf(store[PositionOf(lastResp.req.id)])
        /\ lastResp.body.guest_counter.count = Len(store)

C4_Witness ==
    /\ lastResp.kind = "post" /\ lastResp.status = 200
    /\ Len(store) = 2
    /\ lastResp.req.id = 1
    /\ Pending("read") # {}

C6_AppendOnly ==
    [][/\ (get \/ get_update_messages \/ post_missing_field) => store' = store
       /\ store' # store =>
             /\ Len(store') = Len(store) + 1
             /\ SubSeq(store', 1, Len(store)) = store
             /\ \E r \in inflight : add_message_insert(r)]_vars

C6_Witness ==
    /\ Len(store) = 2
    /\ lastResp.kind = "update"
    /\ repeated

\* C7: in a successful response the counter is the number of rows the
\* handler read and the number of entries of the list; on an empty table
\* the list is the placeholder and not an empty container; with no POST in
\* flight the counter is the number of successful submissions.
C7_CounterMatchesList ==
    (lastResp.status = 200) =>
        LET area == UpdateArea(lastResp.kind, lastResp.body)
        IN  /\ area.guest_counter.count = Len(store)
            /\ area.guest_counter.count = NumEntries(area.message_list)
            /\ area.message_list.cls = "message-list"
                  => Len(area.message_list.children) >= 1
            /\ Len(store) = 0 =>
                  /\ area.message_list.cls = "empty-state"
                  /\ area.message_list.children
                        = <<[tag |-> "p",
                             text |-> "No messages yet. Be the first to say hi!"]>>
            /\ inflight = {} => area.guest_counter.count = nOk

C7_Witness ==
    /\ lastResp.kind = "get" /\ lastResp.status = 200
    /\ inflight = {}
    /\ nOk = 2

\* C8: while a stored timestamp does not parse, every handler that reads the
\* table fails the whole request: the response is an error without any
\* counter or list.
C8_MalformedTimestampFails ==
    (Unparsable /\ lastResp.kind # "none" /\ lastResp.status # 400) =>
        /\ lastResp.status = 500
        /\ lastResp.body = NoBody

C8_Witness ==
    /\ Unparsable
    /\ lastResp.kind = "post" /\ lastResp.status = 500
    /\ Len(store) = 2

\* C9: every successful response of the three handlers carries the refresh
\* instruction (GET /update-messages every 10 seconds) on its update-area,
\* so the polling loop sustains itself: once the update-area the client
\* shows tells it to poll, no response it receives takes that away.
C9_PollingSustained ==
    /\ [](lastResp.status = 200 =>
            /\ UpdateArea(lastResp.kind, lastResp.body).id = "update-area"
            /\ UpdateArea(lastResp.kind, lastResp.body).hx_get = "/update-messages"
            /\ UpdateArea(lastResp.kind, lastResp.body).hx_trigger = "every 10s"
            /\ Instructed)
    /\ [][Instructed => Instructed']_vars

C9_Witness ==
    /\ Instructed
    /\ repeated
    /\ lastResp.kind = "update" /\ lastResp.status = 200
    /\ nOk = 2

\* C10: a POST that ends in an error response leaves no row of its own in
\* the table.
C10_FailedPostLeavesNoRow ==
    (lastResp.kind = "post" /\ lastResp.status # 200) =>
        ~HasRow(lastResp.req.id)

====
